---- MODULE Spec2Model ----
(***************************************************************************)
(* Model of the histogram entry points of glean-wasm-experiment            *)
(* (src/src/lib.rs) and of the floating point context (src/src/util.rs).   *)
(*                                                                         *)
(* lib.rs declares the modules `histogram`, `units` and `error` and calls   *)
(* into them; the definitions that stand for them (the unit conversions,   *)
(* the bucketing strategies, the Histogram aggregate) follow the written   *)
(* specification of the repository.                                        *)
(*                                                                         *)
(* u64 values exceed the range of TLC's integers, so a number is kept as a *)
(* little-endian sequence of 16-bit limbs without high zero limbs (zero is *)
(* the empty sequence).  Arithmetic on them is exact; Trunc64 is the       *)
(* reduction modulo 2^64 that a u64 result undergoes.                      *)
(***************************************************************************)
EXTENDS Integers, Sequences, FiniteSets, TLC

VARIABLES
    pc,          \* position of the current entry-point call
    call,        \* arguments of the current call
    i,           \* 1-based position of the sample loop in call.samples
    hist,        \* the Histogram owned by the call (NoHist before construction)
    accumulated, \* the values handed to hist.accumulate so far, in order
    result,      \* the value returned to the caller (NoResult before return)
    cw,          \* floating point control word of the thread
    contexts,    \* live FloatingPointContext values, innermost last
    prior        \* control word immediately before each live acquisition

vars == <<pc, call, i, hist, accumulated, result, cw, contexts, prior>>

histVars == <<pc, call, i, hist, accumulated, result>>
fpVars == <<cw, contexts, prior>>

(***************************************************************************)
(* Bounds of the model.                                                    *)
(***************************************************************************)
\* longest sample list passed to an entry point
MaxSamples == 2
\* deepest nesting of live floating point contexts
MaxDepth == 3

(***************************************************************************)
(* Natural numbers as limb sequences.                                      *)
(***************************************************************************)
LimbBase == 2 ^ 16

RECURSIVE Norm(_)
Norm(x) ==
    IF x = <<>> THEN <<>>
    ELSE IF x[Len(x)] = 0 THEN Norm(SubSeq(x, 1, Len(x) - 1))
    ELSE x

RECURSIVE Big(_)
\* the number n >= 0 of TLC's integers as a limb sequence
Big(n) == IF n = 0 THEN <<>> ELSE <<n % LimbBase>> \o Big(n \div LimbBase)

RECURSIVE Small(_)
\* the value of a limb sequence known to be below 2^31
Small(x) == IF x = <<>> THEN 0 ELSE x[1] + LimbBase * Small(Tail(x))

RECURSIVE AddC(_, _, _)
AddC(x, y, c) ==
    IF x = <<>> /\ y = <<>> THEN (IF c = 0 THEN <<>> ELSE <<c>>)
    ELSE LET a == IF x = <<>> THEN 0 ELSE x[1]
             b == IF y = <<>> THEN 0 ELSE y[1]
             s == a + b + c
         IN  <<s % LimbBase>>
               \o AddC(IF x = <<>> THEN <<>> ELSE Tail(x),
                       IF y = <<>> THEN <<>> ELSE Tail(y),
                       s \div LimbBase)

Add(x, y) == Norm(AddC(x, y, 0))

RECURSIVE MulC(_, _, _)
\* x * k + c for a multiplier k below 2^15
MulC(x, k, c) ==
    IF x = <<>> THEN Big(c)
    ELSE LET p == x[1] * k + c
         IN  <<p % LimbBase>> \o MulC(Tail(x), k, p \div LimbBase)

MulSmall(x, k) == Norm(MulC(x, k, 0))

\* x * 2^16
ShiftLimb(x) == IF x = <<>> THEN <<>> ELSE <<0>> \o x

\* x * l for one limb l
MulLimb(x, l) ==
    Add(MulSmall(MulSmall(x, l \div 256), 256), MulSmall(x, l % 256))

RECURSIVE Mul(_, _)
Mul(x, y) ==
    IF y = <<>> THEN <<>>
    ELSE LET rest == Mul(x, Tail(y))
         IN  IF rest = <<>> THEN MulLimb(x, y[1])
             ELSE Add(MulLimb(x, y[1]), ShiftLimb(rest))

RECURSIVE Pow(_, _)
\* x^n by repeated squaring
Pow(x, n) ==
    IF n = 0 THEN <<1>>
    ELSE LET h == Pow(x, n \div 2)
         IN  IF h = <<>> THEN <<>>
             ELSE IF n % 2 = 0 THEN Mul(h, h) ELSE Mul(Mul(h, h), x)

RECURSIVE LtFrom(_, _, _)
\* x < y for limb sequences of equal length, deciding from limb k downwards
LtFrom(x, y, k) ==
    IF k = 0 THEN FALSE
    ELSE IF x[k] # y[k] THEN x[k] < y[k]
    ELSE LtFrom(x, y, k - 1)

Lt(x, y) ==
    IF Len(x) # Len(y) THEN Len(x) < Len(y) ELSE LtFrom(x, y, Len(x))

Gt(x, y) == Lt(y, x)
Le(x, y) == ~Lt(y, x)
Ge(x, y) == ~Lt(x, y)

RECURSIVE LimbLen(_)
\* number of significant bits of one limb
LimbLen(l) == IF l = 0 THEN 0 ELSE 1 + LimbLen(l \div 2)

\* number of significant bits of x
BitLen(x) ==
    IF x = <<>> THEN 0 ELSE 16 * (Len(x) - 1) + LimbLen(x[Len(x)])

\* the low 64 bits of x: the value of x as u64
Trunc64(x) ==
    Norm(SubSeq(x, 1, IF Len(x) < 4 THEN Len(x) ELSE 4))

U64Max == <<LimbBase - 1, LimbBase - 1, LimbBase - 1, LimbBase - 1>>

(***************************************************************************)
(* units: TimeUnit and MemoryUnit.                                         *)
(***************************************************************************)
\* TimeUnit::try_from: the unit of an integer code, "Err" for an unknown one
TimeUnitTryFrom(code) ==
    CASE code = 0 -> "Nanosecond"
      [] code = 1 -> "Microsecond"
      [] code = 2 -> "Millisecond"
      [] OTHER -> "Err"

\* TimeUnit::as_nanos: the duration times the unit's factor, as u64
as_nanos(unit, duration) ==
    CASE unit = "Nanosecond" -> duration
      [] unit = "Microsecond" -> Trunc64(MulSmall(duration, 1000))
      [] unit = "Millisecond" -> Trunc64(MulSmall(MulSmall(duration, 1000), 1000))

\* MemoryUnit::try_from
MemoryUnitTryFrom(code) ==
    CASE code = 0 -> "Byte"
      [] code = 1 -> "Kilobyte"
      [] code = 2 -> "Megabyte"
      [] code = 3 -> "Gigabyte"
      [] OTHER -> "Err"

\* MemoryUnit::as_bytes: the value times the unit's factor, as u64
as_bytes(unit, value) ==
    CASE unit = "Byte" -> value
      [] unit = "Kilobyte" -> Trunc64(MulSmall(value, 1024))
      [] unit = "Megabyte" -> Trunc64(MulSmall(MulSmall(value, 1024), 1024))
      [] unit = "Gigabyte" ->
            Trunc64(MulSmall(MulSmall(MulSmall(value, 1024), 1024), 1024))

\* HistogramType::try_from
HistogramTypeTryFrom(code) ==
    CASE code = 0 -> "Linear"
      [] code = 1 -> "Exponential"
      [] OTHER -> "Err"

(***************************************************************************)
(* histogram: the bucketing strategies.                                    *)
(***************************************************************************)
Max(a, b) == IF a > b THEN a ELSE b
Min(a, b) == IF a < b THEN a ELSE b

\* a strategy can be built from these parameters
ValidConfig(range_min, range_max, bucket_count) ==
    bucket_count > 0 /\ range_max > range_min

\* Linear.bucket_index: floor((s - range_min) / bucket_width) with
\* bucket_width = (range_max - range_min) / bucket_count, clamped into the
\* buckets; samples outside the range collapse into the first or last bucket
LinearBucketIndex(b, s) ==
    IF Lt(s, Big(b.range_min)) THEN 0
    ELSE IF Ge(s, Big(b.range_max)) THEN b.bucket_count - 1
    ELSE Max(0, Min(b.bucket_count - 1,
             ((Small(s) - b.range_min) * b.bucket_count)
                 \div (b.range_max - b.range_min)))

RECURSIVE RoundedRoot(_, _, _, _)
\* the largest v in lo..hi with (2v - 1)^n <= 2^n * target, that is the n-th
\* root of target rounded to the nearest integer (half up), found by bisection
\* given that lo qualifies
RoundedRoot(n, target, lo, hi) ==
    IF lo = hi THEN lo
    ELSE LET mid == (lo + hi + 1) \div 2
         IN  IF Le(Pow(Big(2 * mid - 1), n), Mul(Pow(<<2>>, n), target))
             THEN RoundedRoot(n, target, mid, hi)
             ELSE RoundedRoot(n, target, lo, mid - 1)

RECURSIVE GeometricRanges(_, _, _, _, _)
\* boundaries k .. n-1 of the geometric interpolation from first to range_max:
\* boundary k is first * (range_max / first)^(k / n) rounded; a boundary that
\* rounds to the previous one is merged with it
GeometricRanges(first, range_max, n, k, last) ==
    IF k >= n THEN <<>>
    ELSE LET target == Mul(Pow(Big(first), n - k), Pow(Big(range_max), k))
             next == RoundedRoot(n, target, last, Max(last, range_max))
         IN  IF next = last
             THEN GeometricRanges(first, range_max, n, k + 1, last)
             ELSE <<next>> \o GeometricRanges(first, range_max, n, k + 1, next)

\* the precomputed boundaries of the Exponential strategy
ExponentialRanges(range_min, range_max, bucket_count) ==
    LET first == IF range_min = 0 THEN 1 ELSE range_min
    IN  <<first>> \o GeometricRanges(first, range_max, bucket_count, 1, first)

RECURSIVE SearchRanges(_, _, _, _)
\* binary search: the position in lo..hi of the last boundary <= s,
\* given ranges[lo] <= s
SearchRanges(ranges, s, lo, hi) ==
    IF lo = hi THEN lo
    ELSE LET mid == (lo + hi + 1) \div 2
         IN  IF Le(Big(ranges[mid]), s)
             THEN SearchRanges(ranges, s, mid, hi)
             ELSE SearchRanges(ranges, s, lo, mid - 1)

\* Exponential.bucket_index (0-based)
ExponentialBucketIndex(b, s) ==
    IF Lt(s, Big(b.ranges[1])) THEN 0
    ELSE SearchRanges(b.ranges, s, 1, Len(b.ranges)) - 1

\* Functional.bucket_index for log_base 2:
\* floor(buckets_per_magnitude * log2(s)) = floor(log2(s^buckets_per_magnitude)),
\* a sample of 0 counting as 1
FunctionalBucketIndex(b, s) ==
    LET v == IF s = <<>> THEN <<1>> ELSE s
    IN  BitLen(Pow(v, b.buckets_per_magnitude)) - 1

\* Bucketing::bucket_index of the strategy b
BucketIndex(b, s) ==
    CASE b.kind = "Linear" -> LinearBucketIndex(b, s)
      [] b.kind = "Exponential" -> ExponentialBucketIndex(b, s)
      [] b.kind = "Functional" -> FunctionalBucketIndex(b, s)
      [] b.kind = "Degenerate" -> 0

(***************************************************************************)
(* histogram: the Histogram aggregate.                                     *)
(***************************************************************************)
NoHist == [kind |-> "none"]
NoResult == [kind |-> "none"]
NoCall == [fn |-> "none"]

\* a fresh Histogram owning the strategy b
NewHistogram(b) ==
    [kind |-> "hist", bucketing |-> b, values |-> <<>>, count |-> 0, sum |-> <<>>]

\* Histogram::linear
HistogramLinear(range_min, range_max, bucket_count) ==
    NewHistogram([kind |-> "Linear", range_min |-> range_min,
                  range_max |-> range_max, bucket_count |-> bucket_count])

\* Histogram::exponential
HistogramExponential(range_min, range_max, bucket_count) ==
    NewHistogram([kind |-> "Exponential",
                  ranges |-> ExponentialRanges(range_min, range_max, bucket_count)])

\* Histogram::functional, for log_base 2
HistogramFunctional(buckets_per_magnitude) ==
    NewHistogram([kind |-> "Functional",
                  buckets_per_magnitude |-> buckets_per_magnitude])

\* the histogram a constructor leaves behind when it accepts parameters that
\* describe no bucket at all: every sample falls into its one bucket
HistogramDegenerate == NewHistogram([kind |-> "Degenerate"])

\* Histogram::accumulate
Accumulate(h, sample) ==
    LET k == BucketIndex(h.bucketing, sample)
    IN  [h EXCEPT !.values = IF k \in DOMAIN @
                               THEN [@ EXCEPT ![k] = @ + 1]
                               ELSE @ @@ (k :> 1),
                  !.count = @ + 1,
                  !.sum = Add(@, sample)]

\* Histogram::snapshot_values
SnapshotValues(h) == [kind |-> "values", values |-> h.values]

\* Histogram::snapshot
Snapshot(h) ==
    [kind |-> "snapshot", values |-> h.values, sum |-> h.sum, count |-> h.count]

(***************************************************************************)
(* lib.rs: constants and per-sample preprocessing.                         *)
(***************************************************************************)
\* 1000 * 1000 * 1000 * 60 * 10
MAX_SAMPLE_TIME ==
    MulSmall(MulSmall(MulSmall(MulSmall(Big(1000), 1000), 1000), 60), 10)

\* 1 << 40
MAX_BYTES == <<0, 0, 2 ^ 8>>

\* buckets per magnitude of the timing and of the memory distribution
TIMING_BUCKETS_PER_MAGNITUDE == 8
MEMORY_BUCKETS_PER_MAGNITUDE == 16

\* the range check of the timing distribution, on the incoming value
TimingClamp(sample) ==
    IF sample = <<>> THEN <<1>>
    ELSE IF Gt(sample, MAX_SAMPLE_TIME) THEN MAX_SAMPLE_TIME
    ELSE sample

\* mutant: the unit conversion first, the range check on its result
TimingSample_ConvertThenClamp(unit, sample) ==
    TimingClamp(as_nanos(unit, sample))

\* mutant: the range check compares the converted value with the ceiling
TimingSample_CompareConverted(unit, sample) ==
    IF sample = <<>> THEN as_nanos(unit, <<1>>)
    ELSE IF Gt(as_nanos(unit, sample), MAX_SAMPLE_TIME)
    THEN as_nanos(unit, MAX_SAMPLE_TIME)
    ELSE as_nanos(unit, sample)

\* the value the timing distribution accumulates for a sample in `unit`
TimingSample(unit, sample) == as_nanos(unit, TimingClamp(sample))

\* mutant: the ceiling applied to the raw value, the conversion after it
MemorySample_ClampThenConvert(unit, sample) ==
    as_bytes(unit, IF Gt(sample, MAX_BYTES) THEN MAX_BYTES ELSE sample)

\* the value the memory distribution accumulates for a sample in `unit`
MemorySample(unit, sample) ==
    LET bytes == as_bytes(unit, sample)
    IN  IF Gt(bytes, MAX_BYTES) THEN MAX_BYTES ELSE bytes

(***************************************************************************)
(* Inputs.                                                                 *)
(***************************************************************************)
RECURSIVE SeqsUpTo(_, _)
\* the sequences over S of length at most n
SeqsUpTo(S, n) ==
    IF n = 0 THEN {<<>>}
    ELSE LET shorter == SeqsUpTo(S, n - 1)
         IN  shorter \cup {Append(q, x) : q \in shorter, x \in S}

HistogramTypeCodes == {0, 1, 2}
TimeUnitCodes == {-1, 0, 1, 2, 99}
MemoryUnitCodes == {-1, 0, 1, 2, 3, 99}

RangeMins == {0, 3}
RangeMaxs == {3, 8, 100}
BucketCounts == {0, 1, 3, 10}

CustomSamples == {<<>>, Big(5), Big(105), U64Max}

TimingSamples ==
    {<<>>, <<1>>, Big(1000000000), MAX_SAMPLE_TIME, Add(MAX_SAMPLE_TIME, <<1>>),
     MulSmall(Big(100000000), 7000), U64Max}

MemorySamples ==
    {<<>>, <<1>>, Big(2 ^ 20), MAX_BYTES, Add(MAX_BYTES, <<1>>),
     <<0, 0, 2 ^ 9>>, <<0, 0, 0, 2 ^ 15>>, U64Max}

(***************************************************************************)
(* util.rs: the floating point context.                                    *)
(***************************************************************************)
\* Rounding control mask
MCW_RC == 768
\* Round by truncation
RC_CHOP == 768
\* Precision control mask
MCW_PC == 196608
\* Values for 64-bit precision
PC_64 == 0

RECURSIVE BitAnd(_, _)
BitAnd(a, b) ==
    IF a = 0 \/ b = 0 THEN 0
    ELSE (a % 2) * (b % 2) + 2 * BitAnd(a \div 2, b \div 2)

BitOr(a, b) == a + b - BitAnd(a, b)

\* _controlfp_s(&current, new, mask): the control word it leaves behind,
\* which is also the value it stores in `current`: the bits of `mask` are
\* taken from `new`, and `current` receives the word after the change
controlfp_s(word, new, mask) ==
    BitOr(word - BitAnd(word, mask), BitAnd(new, mask))

\* the rounding and precision control bits of a control word
ControlBits(word) == BitAnd(word, BitOr(MCW_PC, MCW_RC))

\* control words a thread can hold on entry: every rounding mode, every
\* precision, with some exception masks
ControlWords ==
    {rc + pc_ + em : rc \in {0, 256, 512, 768},
                     pc_ \in {0, 65536, 131072},
                     em \in {0, 8, 31}}

(***************************************************************************)
(* The entry points of lib.rs.                                             *)
(***************************************************************************)
Init ==
    /\ pc = "idle"
    /\ call = NoCall
    /\ i = 0
    /\ hist = NoHist
    /\ accumulated = <<>>
    /\ result = NoResult
    /\ cw = 0
    /\ contexts = <<>>
    /\ prior = <<>>

\* mutant: range_min and range_max handed over in the wrong order
CustomConstruct_SwappedRange(type, range_min, range_max, bucket_count) ==
    IF type = "Linear"
    THEN HistogramLinear(range_max, range_min, bucket_count)
    ELSE HistogramExponential(range_max, range_min, bucket_count)

\* the histogram built for a recognised histogram_type: lines 36 and 41
CustomConstruct(type, range_min, range_max, bucket_count) ==
    IF type = "Linear"
    THEN HistogramLinear(range_min, range_max, bucket_count)
    ELSE HistogramExponential(range_min, range_max, bucket_count)

\* accumulate_samples_custom_distribution up to the sample loop
CustomCall(range_min, range_max, bucket_count, histogram_type, samples) ==
    /\ pc = "idle"
    /\ call' = [fn |-> "custom", range_min |-> range_min, range_max |-> range_max,
                bucket_count |-> bucket_count, code |-> histogram_type,
                samples |-> samples]
    /\ LET type == HistogramTypeTryFrom(histogram_type)
       IN  IF type = "Err"
           THEN /\ pc' = "panic"
                /\ UNCHANGED <<i, hist>>
           ELSE IF ValidConfig(range_min, range_max, bucket_count)
           THEN /\ hist' = CustomConstruct(type, range_min, range_max, bucket_count)
                /\ pc' = "custom"
                /\ i' = 1
           ELSE \* the constructor is handed parameters that describe no
                \* bucket: it returns a histogram or it panics, lib.rs has
                \* no other way out of this call
                \/ /\ pc' = "panic"
                   /\ UNCHANGED <<i, hist>>
                \/ /\ hist' = HistogramDegenerate
                   /\ pc' = "custom"
                   /\ i' = 1
    /\ UNCHANGED <<accumulated, result>>
    /\ UNCHANGED fpVars

\* mutant: the loop accumulates each sample twice
CustomAccumulate_Twice ==
    /\ pc = "custom"
    /\ i <= Len(call.samples)
    /\ hist' = Accumulate(Accumulate(hist, call.samples[i]), call.samples[i])
    /\ accumulated' = Append(accumulated, call.samples[i])
    /\ i' = i + 1
    /\ UNCHANGED <<pc, call, result>>
    /\ UNCHANGED fpVars

\* mutant: the loop skips the samples at or above range_max
CustomAccumulate_DropOverflow ==
    /\ pc = "custom"
    /\ i <= Len(call.samples)
    /\ IF Ge(call.samples[i], Big(call.range_max))
       THEN UNCHANGED <<hist, accumulated>>
       ELSE /\ hist' = Accumulate(hist, call.samples[i])
            /\ accumulated' = Append(accumulated, call.samples[i])
    /\ i' = i + 1
    /\ UNCHANGED <<pc, call, result>>
    /\ UNCHANGED fpVars

\* one turn of the loop of the inner fn accumulate
CustomAccumulate ==
    /\ pc = "custom"
    /\ i <= Len(call.samples)
    /\ hist' = Accumulate(hist, call.samples[i])
    /\ accumulated' = Append(accumulated, call.samples[i])
    /\ i' = i + 1
    /\ UNCHANGED <<pc, call, result>>
    /\ UNCHANGED fpVars

\* serde_json::to_string(&hist.snapshot_values())
CustomReturn ==
    /\ pc = "custom"
    /\ i > Len(call.samples)
    /\ result' = SnapshotValues(hist)
    /\ pc' = "done"
    /\ UNCHANGED <<call, i, hist, accumulated>>
    /\ UNCHANGED fpVars

\* accumulate_samples_timing_distribution up to the sample loop
TimingCall(time_unit, samples) ==
    /\ pc = "idle"
    /\ call' = [fn |-> "timing", code |-> time_unit, samples |-> samples]
    /\ hist' = HistogramFunctional(TIMING_BUCKETS_PER_MAGNITUDE)
    /\ pc' = "timing"
    /\ i' = 1
    /\ UNCHANGED <<accumulated, result>>
    /\ UNCHANGED fpVars

\* mutant: the sample is accumulated before the unit is looked up
TimingIterate_AccumulateFirst ==
    /\ pc = "timing"
    /\ i <= Len(call.samples)
    /\ LET unit == TimeUnitTryFrom(call.code)
           clamped == TimingClamp(call.samples[i])
       IN  IF unit = "Err"
           THEN /\ hist' = Accumulate(hist, clamped)
                /\ accumulated' = Append(accumulated, clamped)
                /\ pc' = "panic"
                /\ UNCHANGED i
           ELSE /\ hist' = Accumulate(hist, as_nanos(unit, clamped))
                /\ accumulated' = Append(accumulated, as_nanos(unit, clamped))
                /\ i' = i + 1
                /\ UNCHANGED pc
    /\ UNCHANGED <<call, result>>
    /\ UNCHANGED fpVars

\* one turn of the sample loop of the timing distribution
TimingIterate ==
    /\ pc = "timing"
    /\ i <= Len(call.samples)
    /\ LET unit == TimeUnitTryFrom(call.code)
       IN  IF unit = "Err"
           THEN /\ pc' = "panic"
                /\ UNCHANGED <<i, hist, accumulated>>
           ELSE LET sample == TimingSample(unit, call.samples[i])
                IN  /\ hist' = Accumulate(hist, sample)
                    /\ accumulated' = Append(accumulated, sample)
                    /\ i' = i + 1
                    /\ UNCHANGED pc
    /\ UNCHANGED <<call, result>>
    /\ UNCHANGED fpVars

\* serde_json::to_string(&hist.snapshot())
TimingReturn ==
    /\ pc = "timing"
    /\ i > Len(call.samples)
    /\ result' = Snapshot(hist)
    /\ pc' = "done"
    /\ UNCHANGED <<call, i, hist, accumulated>>
    /\ UNCHANGED fpVars

\* accumulate_samples_memory_distribution up to the sample loop
MemoryCall(memory_unit, samples) ==
    /\ pc = "idle"
    /\ call' = [fn |-> "memory", code |-> memory_unit, samples |-> samples]
    /\ hist' = HistogramFunctional(MEMORY_BUCKETS_PER_MAGNITUDE)
    /\ pc' = "memory"
    /\ i' = 1
    /\ UNCHANGED <<accumulated, result>>
    /\ UNCHANGED fpVars

\* one turn of the sample loop of the memory distribution
MemoryIterate ==
    /\ pc = "memory"
    /\ i <= Len(call.samples)
    /\ LET unit == MemoryUnitTryFrom(call.code)
       IN  IF unit = "Err"
           THEN /\ pc' = "panic"
                /\ UNCHANGED <<i, hist, accumulated>>
           ELSE LET sample == MemorySample(unit, call.samples[i])
                IN  /\ hist' = Accumulate(hist, sample)
                    /\ accumulated' = Append(accumulated, sample)
                    /\ i' = i + 1
                    /\ UNCHANGED pc
    /\ UNCHANGED <<call, result>>
    /\ UNCHANGED fpVars

\* serde_json::to_string(&hist.snapshot())
MemoryReturn ==
    /\ pc = "memory"
    /\ i > Len(call.samples)
    /\ result' = Snapshot(hist)
    /\ pc' = "done"
    /\ UNCHANGED <<call, i, hist, accumulated>>
    /\ UNCHANGED fpVars

Next ==
    \/ \E range_min \in RangeMins, range_max \in RangeMaxs,
          bucket_count \in BucketCounts, histogram_type \in HistogramTypeCodes,
          samples \in SeqsUpTo(CustomSamples, MaxSamples) :
            CustomCall(range_min, range_max, bucket_count, histogram_type, samples)
    \/ CustomAccumulate
    \/ CustomReturn
    \/ \E time_unit \in TimeUnitCodes, samples \in SeqsUpTo(TimingSamples, MaxSamples) :
            TimingCall(time_unit, samples)
    \/ TimingIterate
    \/ TimingReturn
    \/ \E memory_unit \in MemoryUnitCodes, samples \in SeqsUpTo(MemorySamples, MaxSamples) :
            MemoryCall(memory_unit, samples)
    \/ MemoryIterate
    \/ MemoryReturn

Spec == Init /\ [][Next]_vars

(***************************************************************************)
(* The floating point context on its own: acquisitions and releases on a   *)
(* thread that starts with any control word.                               *)
(***************************************************************************)
InitFP ==
    /\ pc = "idle"
    /\ call = NoCall
    /\ i = 0
    /\ hist = NoHist
    /\ accumulated = <<>>
    /\ result = NoResult
    /\ cw \in ControlWords
    /\ contexts = <<>>
    /\ prior = <<>>

\* FloatingPointContext::new
FpNew ==
    /\ Len(contexts) < MaxDepth
    /\ LET current == controlfp_s(cw, BitOr(PC_64, RC_CHOP), BitOr(MCW_PC, MCW_RC))
       IN  /\ cw' = current
           /\ contexts' = Append(contexts, [original_value |-> current])
    /\ prior' = Append(prior, cw)
    /\ UNCHANGED histVars

\* Drop for FloatingPointContext, of the innermost live context
FpDrop ==
    /\ contexts # <<>>
    /\ cw' = controlfp_s(cw, contexts[Len(contexts)].original_value,
                         BitOr(MCW_PC, MCW_RC))
    /\ contexts' = SubSeq(contexts, 1, Len(contexts) - 1)
    /\ prior' = SubSeq(prior, 1, Len(prior) - 1)
    /\ UNCHANGED histVars

NextFP == FpNew \/ FpDrop

SpecFP == InitFP /\ [][NextFP]_vars

(***************************************************************************)
(* Properties.                                                             *)
(***************************************************************************)
RECURSIVE SumOfCounts(_, _)
\* the sum of the counts values[k] for k in keys
SumOfCounts(values, keys) ==
    IF keys = {} THEN 0
    ELSE LET k == CHOOSE x \in keys : TRUE
         IN  values[k] + SumOfCounts(values, keys \ {k})

\* the count of bucket k, absent keys counting as zero
CountOf(values, k) == IF k \in DOMAIN values THEN values[k] ELSE 0

\* the current call carries a discriminant code the entry point does not know
UnrecognisedCode ==
    \/ call.fn = "custom" /\ HistogramTypeTryFrom(call.code) = "Err"
    \/ call.fn = "timing" /\ TimeUnitTryFrom(call.code) = "Err"
    \/ call.fn = "memory" /\ MemoryUnitTryFrom(call.code) = "Err"

C2_TimingClampThenConvert ==
    (call.fn = "timing" /\ TimeUnitTryFrom(call.code) # "Err")
        => /\ Len(accumulated) = i - 1
           /\ hist.count = Len(accumulated)
           /\ pc = "done" => Len(accumulated) = Len(call.samples)
           /\ \A k \in 1..Len(accumulated) :
                LET r == call.samples[k]
                    c == IF r = Big(0) THEN Big(1)
                         ELSE IF Gt(r, MAX_SAMPLE_TIME) THEN MAX_SAMPLE_TIME
                         ELSE r
                IN  accumulated[k] = as_nanos(TimeUnitTryFrom(call.code), c)

C2_Witness ==
    /\ pc = "done"
    /\ call.fn = "timing"
    /\ TimeUnitTryFrom(call.code) = "Microsecond"
    /\ Len(call.samples) = 2
    /\ call.samples[1] = Big(0)
    /\ Gt(call.samples[2], MAX_SAMPLE_TIME)
    /\ accumulated = <<Big(1000), MulSmall(MAX_SAMPLE_TIME, 1000)>>

\* C3: in the memory distribution with a valid memory_unit the k-th value
\* accumulated is min(as_bytes(r), 2^40) for the k-th raw sample r: nothing
\* above 2^40 is accumulated, and a sample whose byte value exceeds 2^40 is
\* recorded as exactly 2^40.
C3_MemoryConvertThenClamp ==
    (call.fn = "memory" /\ MemoryUnitTryFrom(call.code) # "Err")
        => /\ Len(accumulated) = i - 1
           /\ \A k \in 1..Len(accumulated) :
                LET bytes == as_bytes(MemoryUnitTryFrom(call.code), call.samples[k])
                IN  /\ Le(accumulated[k], MAX_BYTES)
                    /\ Gt(bytes, MAX_BYTES) => accumulated[k] = MAX_BYTES
                    /\ Le(bytes, MAX_BYTES) => accumulated[k] = bytes

C3_Witness ==
    /\ pc = "done"
    /\ call.fn = "memory"
    /\ MemoryUnitTryFrom(call.code) = "Byte"
    /\ call.samples = << <<0, 0, 2 ^ 9>> >>
    /\ accumulated = <<MAX_BYTES>>
    /\ result.sum = MAX_BYTES

\* C4: a call with an unrecognised discriminant code and a non-empty sample
\* list is rejected before any sample is accumulated: nothing is accumulated
\* into any histogram, no turn of a sample loop completes and no result is
\* returned.
C4_RejectedBeforeAccumulation ==
    (UnrecognisedCode /\ Len(call.samples) > 0)
        => /\ accumulated = <<>>
           /\ hist.kind = "hist" => hist.count = 0 /\ hist.values = <<>>
           /\ result = NoResult
           /\ pc \in {"timing", "memory", "panic"}
           /\ pc # "panic" => i = 1

C4_Witness ==
    /\ pc = "panic"
    /\ call.fn = "timing"
    /\ call.code = -1
    /\ Len(call.samples) = 2

\* C5: a call with an unrecognised discriminant code never returns a
\* serialized snapshot, whatever the sample list, the empty list included.
C5_UnrecognisedCodeNeverReturns ==
    UnrecognisedCode => (result = NoResult /\ pc # "done")

\* C6: a custom distribution call with a valid histogram_type and with
\* bucket_count = 0 or range_max <= range_min is rejected before any
\* histogram is constructed; it neither panics nor returns a result.
C6_ConfigurationErrorReported ==
    (/\ call.fn = "custom"
     /\ HistogramTypeTryFrom(call.code) # "Err"
     /\ ~ValidConfig(call.range_min, call.range_max, call.bucket_count))
        => /\ pc # "panic"
           /\ pc # "done"
           /\ hist = NoHist
           /\ accumulated = <<>>
           /\ result = NoResult

\* C7: while a context is held the rounding and precision control bits are
\* the forced ones, and every release restores the control bits that were in
\* effect immediately before the matching acquisition.
C7_ReleaseRestoresPriorMode ==
    /\ [](contexts # <<>> => ControlBits(cw) = BitOr(PC_64, RC_CHOP))
    /\ [][Len(contexts') < Len(contexts)
            => ControlBits(cw') = ControlBits(prior[Len(prior)])]_vars

\* the sample s belongs to bucket k of a Linear strategy over
\* [range_min, range_max) with bucket_count buckets of equal width
InLinearBucket(s, k, range_min, range_max, bucket_count) ==
    IF Lt(s, Big(range_min)) THEN k = 0
    ELSE IF Ge(s, Big(range_max)) THEN k = bucket_count - 1
    ELSE LET offset == (Small(s) - range_min) * bucket_count
             width == range_max - range_min
         IN  k * width <= offset /\ offset < (k + 1) * width

C10_ConvertedValueCompared ==
    (call.fn = "timing" /\ TimeUnitTryFrom(call.code) \in {"Microsecond", "Millisecond"})
        => \A k \in 1..Len(accumulated) :
             LET unit == TimeUnitTryFrom(call.code)
                 r == call.samples[k]
             IN  (r # Big(0) /\ Gt(as_nanos(unit, r), MAX_SAMPLE_TIME))
                    => accumulated[k] \in {MAX_SAMPLE_TIME, as_nanos(unit, MAX_SAMPLE_TIME)}

\* C10 amended: for every time unit the value compared against the ten-minute
\* ceiling is the raw value before conversion: a non-zero sample is recorded
\* as the converted ceiling exactly when its raw value exceeds the ceiling,
\* and as its own converted value otherwise, however large that is.
C10_RawValueCompared ==
    (call.fn = "timing" /\ TimeUnitTryFrom(call.code) # "Err")
        => \A k \in 1..Len(accumulated) :
             LET unit == TimeUnitTryFrom(call.code)
                 r == call.samples[k]
             IN  /\ Gt(r, MAX_SAMPLE_TIME)
                        => accumulated[k] = as_nanos(unit, MAX_SAMPLE_TIME)
                 /\ (r # Big(0) /\ Le(r, MAX_SAMPLE_TIME))
                        => accumulated[k] = as_nanos(unit, r)

C10_Witness ==
    /\ call.fn = "timing"
    /\ TimeUnitTryFrom(call.code) = "Microsecond"
    /\ Len(accumulated) >= 1
    /\ call.samples[1] = Big(1000000000)
    /\ Gt(accumulated[1], MAX_SAMPLE_TIME)
    /\ accumulated[1] = MulSmall(Big(1000000000), 1000)

====
